---- MODULE Spec2Model ----
(***************************************************************************)
(* go-profile (src/go-profile.go): a wrapper that runs a child command,    *)
(* mirrors its stdout/stderr into a log and samples CPU / memory / GPU     *)
(* usage every tick from a background goroutine.                           *)
(*                                                                         *)
(* Processes of the model: main (the coordinator), the sampler goroutine,  *)
(* the two handleOutput goroutines, the ticker of the Go runtime and the   *)
(* child process and its descendants.  Every access to shared state (a     *)
(* write to the log file or to stderr, a load or a store of an aggregate,  *)
(* a channel operation) is one step.                                       *)
(*                                                                         *)
(* There is no clock: the ticker may fire at any moment after it is        *)
(* created, a step of a goroutine may take any length of time, and a sleep *)
(* returns without any tick having been handled.                           *)
(*                                                                         *)
(* float64 values are modelled as exact rationals extended with NaN and    *)
(* the two infinities; uint64 values are modelled with UintBits bits.      *)
(***************************************************************************)
EXTENDS Integers, Sequences, FiniteSets, TLC

\* ------------------------------------------------------------------ bounds
MaxFire  == 1   \* ticker firings while the counters and nvidia-smi vary
MaxLines == 3   \* lines the child writes in a run without a tick
PipeCap  == 1   \* lines an OS pipe buffers before the writer blocks
UintBits == 16  \* width used for uint64 arithmetic

Streams == {"stdout", "stderr"}

\* ------------------------------------------------------- uint64 arithmetic
RECURSIVE Pow2(_)
Pow2(n) == IF n = 0 THEN 1 ELSE 2 * Pow2(n - 1)

UintMod == Pow2(UintBits)
MaxUint == UintMod - 1            \* ^uint64(0)

UAdd(a, b) == (a + b) % UintMod
USub(a, b) == (a - b + UintMod) % UintMod
UMul(a, b) == (a * b) % UintMod
UMin(a, b) == IF a <= b THEN a ELSE b
UMax(a, b) == IF a >= b THEN a ELSE b

\* ------------------------------------------------------ float64 arithmetic
Abs(x) == IF x < 0 THEN -x ELSE x

RECURSIVE GCD(_, _)
GCD(a, b) == IF b = 0 THEN a ELSE GCD(b, a % b)

NaN  == [k |-> "nan", n |-> 0, d |-> 1]
PInf == [k |-> "inf", n |-> 1, d |-> 1]
NInf == [k |-> "inf", n |-> -1, d |-> 1]

\* the rational n/d (d # 0) in lowest terms with a positive denominator
Fin(n, d) ==
    LET g == GCD(Abs(n), Abs(d))
        s == IF d < 0 THEN -1 ELSE 1
    IN  [k |-> "fin", n |-> (s * n) \div g, d |-> Abs(d) \div g]

F(x) == Fin(x, 1)                 \* float64(x) of an integer

IsNaN(a) == a.k = "nan"
IsInf(a) == a.k = "inf"
IsFin(a) == a.k = "fin"

\* IEEE comparison: every comparison with NaN is false
FLess(a, b) ==
    IF IsNaN(a) \/ IsNaN(b) THEN FALSE
    ELSE IF IsInf(a) THEN a.n < 0 /\ ~(IsInf(b) /\ b.n < 0)
    ELSE IF IsInf(b) THEN b.n > 0
    ELSE a.n * b.d < b.n * a.d

FLeq(a, b) == IF IsNaN(a) \/ IsNaN(b) THEN FALSE ELSE ~FLess(b, a)

FNeg(a) == IF IsNaN(a) THEN NaN ELSE [a EXCEPT !.n = -a.n]

FAdd(a, b) ==
    IF IsNaN(a) \/ IsNaN(b) THEN NaN
    ELSE IF IsInf(a) /\ IsInf(b) THEN (IF a.n = b.n THEN a ELSE NaN)
    ELSE IF IsInf(a) THEN a
    ELSE IF IsInf(b) THEN b
    ELSE Fin(a.n * b.d + b.n * a.d, a.d * b.d)

FSub(a, b) == FAdd(a, FNeg(b))

Sign(x) == IF x > 0 THEN 1 ELSE IF x < 0 THEN -1 ELSE 0

FMul(a, b) ==
    IF IsNaN(a) \/ IsNaN(b) THEN NaN
    ELSE IF IsInf(a) \/ IsInf(b)
         THEN (IF a.n = 0 \/ b.n = 0 THEN NaN
               ELSE IF Sign(a.n) * Sign(b.n) > 0 THEN PInf ELSE NInf)
    ELSE Fin(a.n * b.n, a.d * b.d)

\* float division: x/0 is +Inf or -Inf, 0/0 is NaN, nothing faults
FDiv(a, b) ==
    IF IsNaN(a) \/ IsNaN(b) THEN NaN
    ELSE IF IsInf(a) THEN (IF IsInf(b) THEN NaN
                           ELSE IF Sign(a.n) * (IF b.n < 0 THEN -1 ELSE 1) > 0
                                THEN PInf ELSE NInf)
    ELSE IF IsInf(b) THEN F(0)
    ELSE IF b.n = 0 THEN (IF a.n = 0 THEN NaN
                          ELSE IF a.n > 0 THEN PInf ELSE NInf)
    ELSE Fin(a.n * b.d, a.d * b.n)

\* the builtins min and max on float64: NaN if any argument is NaN
FMin(a, b) == IF IsNaN(a) \/ IsNaN(b) THEN NaN ELSE IF FLess(b, a) THEN b ELSE a
FMax(a, b) == IF IsNaN(a) \/ IsNaN(b) THEN NaN ELSE IF FLess(a, b) THEN b ELSE a

\* ------------------------------------------------- the operating system as
\* the program sees it

\* /proc/stat, first line, the numeric fields after the "cpu" label:
\* <<user, nice, system, idle>>; Go's fields[4] is the fourth of them
ProcStatBoot == <<1, 0, 0, 1>>

\* a read of /proc/stat: whether os.ReadFile succeeds, and what the counters
\* <<user, idle>> have advanced by since the read before
StatReads ==
    { [ok |-> FALSE, dl |-> <<1, 1>>],
      [ok |-> TRUE,  dl |-> <<0, 0>>],
      [ok |-> TRUE,  dl |-> <<1, 1>>],
      [ok |-> TRUE,  dl |-> <<2, 0>>] }
SteadyStatReads == { [ok |-> TRUE, dl |-> <<1, 1>>] }

Advance(os, dl) ==
    <<UAdd(os[1], dl[1]), os[2], os[3], UAdd(os[4], dl[2])>>

\* os.ReadFile("/proc/stat"): the content, or a failure
StatFile(os, ok) == [err |-> ~ok, fields |-> os]

\* /proc/meminfo in kB, or a failure of os.ReadFile
MemFiles ==
    { [err |-> TRUE,  MemTotal |-> 0, MemAvailable |-> 0],
      [err |-> FALSE, MemTotal |-> 4, MemAvailable |-> 1] }
SteadyMemFiles == { [err |-> FALSE, MemTotal |-> 4, MemAvailable |-> 3] }

\* nvidia-smi output after XmlToObject: one GpuUtil per device, each given
\* by its space separated parts ("37 %" is <<"37", "%">>)
GpuOutputs ==
    { <<>>,
      << <<"N/A">>, <<"37", "%">> >> }
SteadyGpuOutputs == { << <<"40", "%">> >> }

\* exit codes of the child; the lines it writes are numbered, and one is
\* either an ordinary line or longer than bufio.MaxScanTokenSize
ExitCodes == {0, 7}
TooLong   == "toolong"
Lines     == {"line", TooLong}

\* outcomes of setting the child up: the command starts, a pipe cannot be
\* made (StdoutPipe, StderrPipe), or cmd.Start fails
Started    == {"ok"}
NotStarted == {"stdout", "stderr", "start"}

\* the runs explored.  A run fixes how often the ticker fires, how many
\* lines the child writes and of which kinds, whether the counters behave
\* (steady), whether descendants of the child may keep its pipes, whether
\* nvidia-smi exists, the child's exit codes and the outcomes of setting it
\* up:
\*   - runs that end before the child starts, with steady and with varying
\*     counters;
\*   - runs of a silent child with one tick, with steady counters, with
\*     varying counters, and with nvidia-smi;
\*   - runs of a child that writes two ordinary lines, with one tick;
\*   - runs without a tick of a child that writes and may leave descendants.
NoChild(n, s) ==
    [fire |-> n, lines |-> 0, steady |-> s, family |-> FALSE,
     smi |-> BOOLEAN, codes |-> {0}, texts |-> {}, setup |-> NotStarted]
Silent(s, g, cs) ==
    [fire |-> 1, lines |-> 0, steady |-> s, family |-> FALSE,
     smi |-> {g}, codes |-> cs, texts |-> {}, setup |-> Started]
Writing(n, k) ==
    [fire |-> n, lines |-> k, steady |-> TRUE, family |-> (n = 0),
     smi |-> {FALSE}, codes |-> IF n = 0 THEN ExitCodes ELSE {0},
     texts |-> IF n = 0 THEN Lines ELSE {"line"}, setup |-> Started]
Runs ==
    { NoChild(MaxFire + 1, TRUE), NoChild(MaxFire, FALSE),
      Silent(TRUE, FALSE, ExitCodes), Silent(FALSE, FALSE, {0}),
      Silent(TRUE, TRUE, {0}),
      Writing(1, 2), Writing(0, MaxLines) }

Platforms == {"linux", "windows"}
ArgLists  == {<<>>, <<"-h">>, <<"--help">>, <<"cmd">>}

\* ------------------------------------------------ functions of the program

\* getCPUTime: parse the first line of /proc/stat
RECURSIVE SumFields(_)
SumFields(fs) ==
    IF fs = <<>> THEN 0 ELSE UAdd(fs[1], SumFields(Tail(fs)))

getCPUTime(file) ==
    IF file.err
    THEN [err |-> TRUE, idle |-> 0, total |-> 0]
    ELSE [err |-> FALSE, idle |-> file.fields[4], total |-> SumFields(file.fields)]

getCPUUsage_KeepPrev(prv, file) ==
    LET st == getCPUTime(file) IN
    IF st.err
    THEN [usage |-> F(0), err |-> TRUE, prev |-> prv]
    ELSE LET diffIdle  == F(USub(st.idle, prv.idle))
             diffTotal == F(USub(st.total, prv.total))
             usage     == FDiv(FSub(diffTotal, diffIdle), diffTotal)
         IN  [usage |-> usage, err |-> FALSE, prev |-> prv]

\* getCPUUsage: usage since the retained snapshot, and the new snapshot
getCPUUsage(prv, file) ==
    LET st == getCPUTime(file) IN
    IF st.err
    THEN [usage |-> F(0), err |-> TRUE, prev |-> prv]
    ELSE LET diffIdle  == F(USub(st.idle, prv.idle))
             diffTotal == F(USub(st.total, prv.total))
             usage     == FDiv(FSub(diffTotal, diffIdle), diffTotal)
         IN  [usage |-> usage, err |-> FALSE,
              prev |-> [idle |-> st.idle, total |-> st.total]]

\* getMemoryInfo: kB values of /proc/meminfo converted to bytes
getMemoryInfo(file) ==
    IF file.err
    THEN [err |-> TRUE, Total |-> 0, Available |-> 0]
    ELSE [err |-> FALSE, Total |-> UMul(file.MemTotal, 1024),
          Available |-> UMul(file.MemAvailable, 1024)]

\* strconv.ParseFloat on the strings the model uses
ParseFloat(str) ==
    IF str = "40" THEN [err |-> FALSE, v |-> F(40)]
    ELSE IF str = "37" THEN [err |-> FALSE, v |-> F(37)]
    ELSE [err |-> TRUE, v |-> F(0)]

\* the loop over log.GPUS: a device that does not parse counts as 0
RECURSIVE GpuTotal(_)
GpuTotal(gpus) ==
    IF gpus = <<>> THEN F(0)
    ELSE LET p    == ParseFloat(gpus[1][1])
             util == IF p.err THEN F(0) ELSE p.v
         IN  FAdd(util, GpuTotal(Tail(gpus)))

GpuPercentOf(gpus) == FDiv(GpuTotal(gpus), F(Len(gpus)))

ZeroStats ==
    [CpuPercent |-> F(0), MemUsed |-> 0, MemTotal |-> 0,
     MemPercent |-> F(0), GpuPercent |-> F(0)]

\* the CPU part of a tick: stats.CpuPercent stays 0 when the read failed
CpuPercentOf(r) == IF r.err THEN F(0) ELSE FMul(r.usage, F(100))

\* the memory part of a tick
MemStatsOf_NoErrCheck(st, m) ==
    LET used == USub(m.Total, m.Available) IN
    [st EXCEPT !.MemPercent = FMul(FDiv(F(used), F(m.Total)), F(100)),
               !.MemTotal = m.Total,
               !.MemUsed = used]

MemStatsOf(st, m) ==
    IF m.err THEN st
    ELSE LET used == USub(m.Total, m.Available) IN
         [st EXCEPT !.MemPercent = FMul(FDiv(F(used), F(m.Total)), F(100)),
                    !.MemTotal = m.Total,
                    !.MemUsed = used]

\* one line of output: who wrote it, which format, which arguments
Entry(w, kind, args) == [w |-> w, kind |-> kind, args |-> args, part |-> "line"]

\* logStats: the GPU value is formatted only when nvidia-smi exists
logStats_AlwaysGpu(st, has) ==
    Entry("sampler", "sample",
          <<st.CpuPercent, st.MemPercent, st.MemUsed, st.MemTotal, st.GpuPercent>>)

logStats(st, has) ==
    IF has
    THEN Entry("sampler", "sample",
               <<st.CpuPercent, st.MemPercent, st.MemUsed, st.MemTotal, st.GpuPercent>>)
    ELSE Entry("sampler", "sample",
               <<st.CpuPercent, st.MemPercent, st.MemUsed, st.MemTotal>>)

\* ---------------------------------------------------------------- state
VARIABLES
    goos, args, hasNvidiaSmi,      \* runtime.GOOS, os.Args[1:], HasNvidiaSmi()
    run,                           \* length of the run and of the child's output
    mpc, exitCode, waitErr,        \* main: position, exit code, err of cmd.Wait
    mbuf, margs,                   \* main: line on its way to stderr, values loaded
    logOpen, log, mirror,          \* go-profile.log, os.Stdout and os.Stderr
    procStat, prev,                \* OS counters, retained CPU snapshot
    totalTicks, minCpu, maxCpu, sumCpu, minRam, maxRam, sumRam,
    minGpu, maxGpu, sumGpu,        \* the aggregates
    tickerOn, tickPending, fired,  \* ticker, ticker.C (buffer of 1)
    doneClosed, closeCount,        \* the done channel
    spc, stats, sbuf,              \* sampler goroutine: position, stats, line for stderr
    recCpu, recRam, recGpu,        \* history: values sampled by the ticks
    child, childCode, written, pipe, \* the child process and its pipes
    wopen,                         \* is a write end of the pipe still open
    rpc, line, readLines           \* handleOutput: position, line, history

inputVars  == <<goos, args, hasNvidiaSmi, run>>
mainVars   == <<mpc, exitCode, waitErr, mbuf, margs>>
sinkVars   == <<logOpen, log, mirror>>
cpuVars    == <<procStat, prev>>
aggVars    == <<totalTicks, minCpu, maxCpu, sumCpu, minRam, maxRam, sumRam,
                minGpu, maxGpu, sumGpu>>
tickerVars == <<tickerOn, tickPending, fired>>
doneVars   == <<doneClosed, closeCount>>
samplerVars == <<spc, stats, sbuf>>
recVars    == <<recCpu, recRam, recGpu>>
childVars  == <<child, childCode, written, pipe, wopen>>
readerVars == <<rpc, line, readLines>>

vars == <<inputVars, mainVars, sinkVars, cpuVars, aggVars, tickerVars,
          doneVars, samplerVars, recVars, childVars, readerVars>>

\* what no step of main, other than the ones that say so, touches
mainEnv == <<inputVars, cpuVars, aggVars, tickerVars, doneVars, samplerVars,
             recVars, childVars, readerVars>>

Running == exitCode = -1

InitRuns(runs) ==
    /\ goos \in Platforms
    /\ args \in ArgLists
    /\ run \in runs
    /\ hasNvidiaSmi \in run.smi
    /\ mpc = "platform" /\ exitCode = -1 /\ waitErr = FALSE
    /\ mbuf = <<>> /\ margs = <<>>
    /\ logOpen = FALSE /\ log = <<>>
    /\ mirror = [s \in Streams |-> <<>>]
    /\ procStat = ProcStatBoot
    /\ prev = [idle |-> 0, total |-> 0]
    /\ totalTicks = 0
    /\ minCpu = F(100) /\ maxCpu = F(0) /\ sumCpu = F(0)
    /\ minRam = MaxUint /\ maxRam = 0 /\ sumRam = 0
    /\ minGpu = F(100) /\ maxGpu = F(0) /\ sumGpu = F(0)
    /\ tickerOn = FALSE /\ tickPending = FALSE /\ fired = 0
    /\ doneClosed = FALSE /\ closeCount = 0
    /\ spc = "none" /\ stats = ZeroStats /\ sbuf = <<>>
    /\ recCpu = <<>> /\ recRam = <<>> /\ recGpu = <<>>
    /\ child = "none" /\ childCode = 0 /\ written = 0
    /\ pipe = [s \in Streams |-> <<>>]
    /\ wopen = [s \in Streams |-> FALSE]
    /\ rpc = [s \in Streams |-> "none"]
    /\ line = [s \in Streams |-> 0]
    /\ readLines = [s \in Streams |-> <<>>]

Init == InitRuns(Runs)

\* --------------------------------------------------------------- helpers

\* A formatted line is handed to the file in one Write call (WriteString at
\* lines 80 and 81, the single Write at the end of fmt.Fprintf at lines
\* 262-268); the log is opened with O_APPEND (line 69), so the bytes of one
\* call land together at the end of the file.
WriteLine_TwoCalls(f, e) ==
    f \o <<[e EXCEPT !.part = "head"], [e EXCEPT !.part = "tail"]>>
WriteLine_AtStart(f, e) == <<e>> \o f
WriteLine(f, e) == Append(f, e)

\* a write to the log file: once log.Close() has run (line 74, deferred)
\* the write fails, and no caller looks at the error
LogWrite(open, f, e) == IF open THEN WriteLine(f, e) ELSE f

\* logPrintf, line 80: the line goes to the log file; the caller keeps it
\* in buf for line 81
logPrintf(e) == log' = LogWrite(logOpen, log, e)

\* logPrintf, line 81: the same line goes to os.Stderr
logPrintfStderr(buf) == mirror' = [mirror EXCEPT !["stderr"] = WriteLine(@, buf[1])]

\* os.Exit(code), a panic, or the return of main: the process is gone
Exit(code) == mpc' = "exited" /\ exitCode' = code

M(kind, a) == Entry("main", kind, a)

\* main is at pc, not inside a logPrintf
AtMain(pc) == Running /\ mpc = pc /\ mbuf = <<>>

\* ------------------------------------------------------------------ main

\* lines 41-44: refuse to run anywhere but on Linux
CheckPlatform ==
    /\ AtMain("platform")
    /\ IF goos # "linux"
       THEN /\ mirror' = [mirror EXCEPT !["stderr"] = Append(@, M("unsupported", <<goos>>))]
            /\ Exit(1)
       ELSE /\ mpc' = "usage" /\ UNCHANGED <<exitCode, mirror>>
    /\ UNCHANGED <<waitErr, mbuf, margs, logOpen, log, mainEnv>>

\* lines 46-49: no command, or -h / --help
IsUsageError_NoHelp(a) == Len(a) < 1
IsUsageError(a) == Len(a) < 1 \/ a[1] = "-h" \/ a[1] = "--help"

CheckArgs ==
    /\ AtMain("usage")
    /\ IF IsUsageError(args)
       THEN /\ mirror' = [mirror EXCEPT !["stderr"] = Append(@, M("usage", <<>>))]
            /\ Exit(1)
       ELSE /\ mpc' = "getprev" /\ UNCHANGED <<exitCode, mirror>>
    /\ UNCHANGED <<waitErr, mbuf, margs, logOpen, log, mainEnv>>

\* lines 52-59: make(chan struct{}) and the first snapshot
GetPrev ==
    /\ AtMain("getprev")
    /\ \E ok \in BOOLEAN :
         LET r == getCPUTime(StatFile(procStat, ok)) IN
         IF r.err
         THEN /\ mirror' = [mirror EXCEPT !["stderr"] = Append(@, M("cputime-failed", <<>>))]
              /\ Exit(1) /\ UNCHANGED prev
         ELSE /\ prev' = [idle |-> r.idle, total |-> r.total]
              /\ mpc' = "openlog" /\ UNCHANGED <<exitCode, mirror>>
    /\ UNCHANGED <<waitErr, mbuf, margs, logOpen, log, inputVars, procStat,
                   aggVars, tickerVars, doneVars, samplerVars, recVars,
                   childVars, readerVars>>

\* lines 61-74: the aggregates get their initial values, the log is opened
OpenLog ==
    /\ AtMain("openlog")
    /\ \E ok \in BOOLEAN :
         IF ok
         THEN /\ logOpen' = TRUE /\ mpc' = "banner"
              /\ UNCHANGED <<exitCode, mirror>>
         ELSE /\ mirror' = [mirror EXCEPT !["stderr"] = Append(@, M("open-failed", <<>>))]
              /\ Exit(1) /\ UNCHANGED logOpen
    /\ UNCHANGED <<waitErr, mbuf, margs, log, mainEnv>>

\* lines 104-106: blank line, separator, start banner; no other goroutine
\* exists yet
Banner ==
    /\ AtMain("banner")
    /\ log' = log \o <<M("newline", <<>>), M("separator", <<>>), M("starting", <<args>>)>>
    /\ mirror' = [mirror EXCEPT !["stderr"] =
                     @ \o <<M("separator", <<>>), M("starting", <<args>>)>>]
    /\ mpc' = "ticker"
    /\ UNCHANGED <<exitCode, waitErr, mbuf, margs, logOpen, mainEnv>>

\* lines 109-163: time.NewTicker and the go statement of the sampler
StartSampler ==
    /\ AtMain("ticker")
    /\ tickerOn' = TRUE /\ spc' = "select"
    /\ mpc' = "baseline"
    /\ UNCHANGED <<exitCode, waitErr, mbuf, margs, sinkVars, inputVars, cpuVars,
                   aggVars, tickPending, fired, doneVars, stats, sbuf, recVars,
                   childVars, readerVars>>

\* a logPrintf of main up to its write to the log (line 80); main goes on
\* at next after the write to stderr
MainLog(e, next) ==
    /\ logPrintf(e)
    /\ mbuf' = <<e>>
    /\ mpc' = next
    /\ UNCHANGED <<exitCode, waitErr, margs, logOpen, mirror, mainEnv>>

\* line 81 of a logPrintf of main
MainStderr ==
    /\ Running /\ mbuf # <<>>
    /\ logPrintfStderr(mbuf)
    /\ mbuf' = <<>>
    /\ UNCHANGED <<mpc, exitCode, waitErr, margs, logOpen, log, mainEnv>>

\* line 166
BaselineLog ==
    /\ AtMain("baseline")
    /\ MainLog(M("baseline", <<>>), "sleep")

\* line 167: time.Sleep(time.Second + tick + 1) returns
BaselineSleep ==
    /\ AtMain("sleep")
    /\ mpc' = "pipes"
    /\ UNCHANGED <<exitCode, waitErr, mbuf, margs, sinkVars, mainEnv>>

\* lines 170-182: exec.Command, StdoutPipe, StderrPipe
Pipes ==
    /\ AtMain("pipes")
    /\ \E r \in run.setup :
         IF r \in {"ok", "start"}
         THEN /\ mpc' = "start"
              /\ UNCHANGED <<exitCode, waitErr, mbuf, margs, sinkVars, mainEnv>>
         ELSE MainLog(M("pipe-failed", <<r>>), "exit1")

\* lines 176, 181, 188, 250: os.Exit(1) after the line that says why
ExitFailure ==
    /\ AtMain("exit1")
    /\ Exit(1)
    /\ UNCHANGED <<waitErr, mbuf, margs, sinkVars, mainEnv>>

\* lines 184-189: cmd.Start; the child holds the write ends of both pipes
CmdStart ==
    /\ AtMain("start")
    /\ \E r \in run.setup \ {"stdout", "stderr"} :
         IF r = "ok"
         THEN /\ child' = "running" /\ mpc' = "started"
              /\ wopen' = [s \in Streams |-> TRUE]
              /\ UNCHANGED <<exitCode, waitErr, mbuf, margs, sinkVars, inputVars,
                             cpuVars, aggVars, tickerVars, doneVars, samplerVars,
                             recVars, childCode, written, pipe, readerVars>>
         ELSE MainLog(M("start-failed", <<>>), "exit1")

\* line 191
StartedLog ==
    /\ AtMain("started")
    /\ MainLog(M("started", <<>>), "spawn")

\* lines 194-208: wg.Add(1) and a goroutine running handleOutput, twice
SpawnReaders ==
    /\ AtMain("spawn")
    /\ rpc' = [s \in Streams |-> "scan"]
    /\ mpc' = "wgwait"
    /\ UNCHANGED <<exitCode, waitErr, mbuf, margs, sinkVars, inputVars, cpuVars,
                   aggVars, tickerVars, doneVars, samplerVars, recVars, childVars,
                   line, readLines>>

\* line 211: wg.Wait returns when both goroutines have called wg.Done
WgReady_StdoutOnly(r) == r["stdout"] = "done"
WgReady(r) == \A s \in Streams : r[s] = "done"

WgWait ==
    /\ AtMain("wgwait")
    /\ WgReady(rpc)
    /\ mpc' = "cmdwait"
    /\ UNCHANGED <<exitCode, waitErr, mbuf, margs, sinkVars, mainEnv>>

\* line 214: cmd.Wait returns an *ExitError for a non-zero exit status;
\* nothing stands between it and close(done)
AfterCmdWait_ExitFirst(err) == IF err THEN "checkerr" ELSE "close"
AfterCmdWait(err) == "close"

CmdWait ==
    /\ AtMain("cmdwait")
    /\ child = "exited"
    /\ waitErr' = (childCode # 0)
    /\ mpc' = AfterCmdWait(childCode # 0)
    /\ UNCHANGED <<exitCode, mbuf, margs, sinkVars, mainEnv>>

\* line 217: close(done)
CloseDone ==
    /\ AtMain("close")
    /\ doneClosed' = TRUE /\ closeCount' = closeCount + 1
    /\ mpc' = "rep_sep"
    /\ UNCHANGED <<exitCode, waitErr, mbuf, margs, sinkVars, inputVars, cpuVars,
                   aggVars, tickerVars, samplerVars, recVars, childVars, readerVars>>

\* line 221
ReportSeparator ==
    /\ AtMain("rep_sep")
    /\ MainLog(M("dashes", <<>>), "rep_cpu")

\* The arguments of a report line are evaluated one after the other, each
\* variable read when its argument is evaluated, while the sampler goroutine
\* may still be storing: margs holds the values read so far.
LoadStep(loads, next) ==
    IF Len(margs) < Len(loads)
    THEN /\ margs' = Append(margs, loads[Len(margs) + 1])
         /\ UNCHANGED <<mpc, exitCode, waitErr, mbuf, sinkVars, mainEnv>>
    ELSE next

\* lines 224-229: minCpu, maxCpu, maxCpu-minCpu, sumCpu/float64(totalTicks)
CpuLoads == <<minCpu, maxCpu, maxCpu, minCpu, sumCpu, totalTicks>>

CpuReport(a) == <<a[1], a[2], FSub(a[3], a[4]), FDiv(a[5], F(a[6]))>>

ReportCpu ==
    /\ AtMain("rep_cpu")
    /\ LoadStep(CpuLoads,
                /\ logPrintf(M("cpu", CpuReport(margs)))
                /\ mbuf' = <<M("cpu", CpuReport(margs))>>
                /\ margs' = <<>>
                /\ mpc' = "rep_mem"
                /\ UNCHANGED <<exitCode, waitErr, logOpen, mirror, mainEnv>>)

\* lines 230-235: sumRam/totalTicks is a uint64 division; with a zero divisor
\* the Go runtime panics (integer divide by zero) before the line is written:
\* the deferred calls run, the panic is printed and the process dies with
\* exit status 2
PanicExit == 2

MemLoads == <<minRam, maxRam, maxRam, minRam, sumRam, totalTicks>>

MemReport(a) == <<a[1], a[2], USub(a[3], a[4]), a[5] \div a[6]>>

ReportMem ==
    /\ AtMain("rep_mem")
    /\ LoadStep(MemLoads,
                IF margs[6] = 0
                THEN /\ mpc' = "panic_stop"
                     /\ UNCHANGED <<exitCode, waitErr, mbuf, margs, sinkVars,
                                    mainEnv>>
                ELSE /\ logPrintf(M("memory", MemReport(margs)))
                     /\ mbuf' = <<M("memory", MemReport(margs))>>
                     /\ margs' = <<>>
                     /\ mpc' = IF hasNvidiaSmi THEN "rep_gpu" ELSE "rep_time"
                     /\ UNCHANGED <<exitCode, waitErr, logOpen, mirror, mainEnv>>)

\* lines 236-243
GpuLoads == <<minGpu, maxGpu, maxGpu, minGpu, sumGpu, totalTicks>>

ReportGpu ==
    /\ AtMain("rep_gpu")
    /\ LoadStep(GpuLoads,
                /\ logPrintf(M("gpu", CpuReport(margs)))
                /\ mbuf' = <<M("gpu", CpuReport(margs))>>
                /\ margs' = <<>>
                /\ mpc' = "rep_time"
                /\ UNCHANGED <<exitCode, waitErr, logOpen, mirror, mainEnv>>)

\* line 244
ReportTime ==
    /\ AtMain("rep_time")
    /\ MainLog(M("elapsed", <<>>), "rep_fin")

\* line 245
ReportFinished ==
    /\ AtMain("rep_fin")
    /\ MainLog(M("finished", <<>>), "checkerr")

\* lines 247-252: the failure line and os.Exit(1) when cmd.Wait returned an
\* error, else main returns and its deferred calls run
CheckErr ==
    /\ AtMain("checkerr")
    /\ IF waitErr
       THEN MainLog(M("failed", <<childCode>>), "exit1")
       ELSE /\ mpc' = "return_stop"
            /\ UNCHANGED <<exitCode, waitErr, mbuf, margs, sinkVars, mainEnv>>

\* The deferred calls of main run last in, first out when main returns and
\* when it panics (os.Exit runs none): ticker.Stop() of line 111, then
\* log.Close() of line 74.  The other goroutines run on until the process
\* is gone.
Unwind ==
    [return_stop |-> "return_close", return_close |-> "return",
     panic_stop  |-> "panic_close",  panic_close  |-> "panic"]

\* line 111, deferred: ticker.Stop(); no tick is sent any more
DeferTickerStop ==
    /\ Running /\ mpc \in {"return_stop", "panic_stop"}
    /\ tickerOn' = FALSE
    /\ mpc' = Unwind[mpc]
    /\ UNCHANGED <<exitCode, waitErr, mbuf, margs, sinkVars, inputVars, cpuVars,
                   aggVars, tickPending, fired, doneVars, samplerVars, recVars,
                   childVars, readerVars>>

\* line 74, deferred: log.Close()
DeferLogClose ==
    /\ Running /\ mpc \in {"return_close", "panic_close"}
    /\ logOpen' = FALSE
    /\ mpc' = Unwind[mpc]
    /\ UNCHANGED <<exitCode, waitErr, mbuf, margs, log, mirror, mainEnv>>

\* main has returned: the process exits with status 0
Return ==
    /\ AtMain("return")
    /\ Exit(0)
    /\ UNCHANGED <<waitErr, mbuf, margs, sinkVars, mainEnv>>

\* the runtime prints the panic on stderr ...
PanicPrint ==
    /\ AtMain("panic")
    /\ mirror' = [mirror EXCEPT !["stderr"] =
                     WriteLine(@, Entry("runtime", "panic", <<>>))]
    /\ mpc' = "die"
    /\ UNCHANGED <<exitCode, waitErr, mbuf, margs, logOpen, log, mainEnv>>

\* ... and ends the process with status 2
PanicDie ==
    /\ AtMain("die")
    /\ Exit(PanicExit)
    /\ UNCHANGED <<waitErr, mbuf, margs, sinkVars, mainEnv>>

\* ---------------------------------------------------------------- ticker

\* the runtime sends on ticker.C every tick; the channel buffers one value
\* and a tick that finds it full is dropped
TickerFire ==
    /\ Running /\ tickerOn /\ fired < run.fire
    /\ tickPending' = TRUE /\ fired' = fired + 1
    /\ UNCHANGED <<inputVars, mainVars, sinkVars, cpuVars, aggVars, tickerOn,
                   doneVars, samplerVars, recVars, childVars, readerVars>>

\* --------------------------------------------------- the sampler goroutine

\* line 117: totalTicks++
Inc(n) == UAdd(n, 1)

\* lines 116-119: case <-ticker.C
SamplerRecvTick ==
    /\ Running /\ spc = "select" /\ tickPending
    /\ tickPending' = FALSE
    /\ totalTicks' = Inc(totalTicks)
    /\ stats' = ZeroStats
    /\ spc' = "cpu"
    /\ UNCHANGED <<inputVars, mainVars, sinkVars, cpuVars, minCpu, maxCpu, sumCpu,
                   minRam, maxRam, sumRam, minGpu, maxGpu, sumGpu, tickerOn,
                   fired, doneVars, sbuf, recVars, childVars, readerVars>>

\* lines 159-160: case <-done.  When a tick is pending as well, select takes
\* either case.
SamplerRecvDone ==
    /\ Running /\ spc = "select" /\ doneClosed
    /\ spc' = "stopped"
    /\ UNCHANGED <<inputVars, mainVars, sinkVars, cpuVars, aggVars, tickerVars,
                   doneVars, stats, sbuf, recVars, childVars, readerVars>>

\* lines 119-123: the CPU part of the sample
SamplerCpu ==
    /\ Running /\ spc = "cpu"
    /\ \E rd \in (IF run.steady THEN SteadyStatReads ELSE StatReads) :
         LET os == Advance(procStat, rd.dl)
             r  == getCPUUsage(prev, StatFile(os, rd.ok))
             v  == CpuPercentOf(r)
         IN  /\ procStat' = os
             /\ prev' = r.prev
             /\ stats' = [stats EXCEPT !.CpuPercent = v]
             /\ recCpu' = Append(recCpu, [v |-> v, err |-> r.err])
    /\ spc' = "cpu_min"
    /\ UNCHANGED <<inputVars, mainVars, sinkVars, aggVars, tickerVars, doneVars,
                   sbuf, recRam, recGpu, childVars, readerVars>>

\* lines 124-126: three stores, each of them seen by main on its own
StoreCpu ==
    /\ Running /\ spc \in {"cpu_min", "cpu_max", "cpu_sum"}
    /\ CASE spc = "cpu_min" ->
              /\ minCpu' = FMin(minCpu, stats.CpuPercent) /\ spc' = "cpu_max"
              /\ UNCHANGED <<maxCpu, sumCpu>>
         [] spc = "cpu_max" ->
              /\ maxCpu' = FMax(maxCpu, stats.CpuPercent) /\ spc' = "cpu_sum"
              /\ UNCHANGED <<minCpu, sumCpu>>
         [] OTHER ->
              /\ sumCpu' = FAdd(sumCpu, stats.CpuPercent) /\ spc' = "mem"
              /\ UNCHANGED <<minCpu, maxCpu>>
    /\ UNCHANGED <<inputVars, mainVars, sinkVars, cpuVars, totalTicks, minRam,
                   maxRam, sumRam, minGpu, maxGpu, sumGpu, tickerVars, doneVars,
                   stats, sbuf, recVars, childVars, readerVars>>

\* lines 128-135: the memory part of the sample
SamplerMem ==
    /\ Running /\ spc = "mem"
    /\ \E f \in (IF run.steady THEN SteadyMemFiles ELSE MemFiles) :
         LET m  == getMemoryInfo(f)
             st == MemStatsOf(stats, m)
         IN  /\ stats' = st
             /\ recRam' = Append(recRam, [v |-> st.MemUsed, err |-> m.err])
    /\ spc' = "mem_min"
    /\ UNCHANGED <<inputVars, mainVars, sinkVars, cpuVars, aggVars, tickerVars,
                   doneVars, sbuf, recCpu, recGpu, childVars, readerVars>>

\* lines 136-138
StoreMem ==
    /\ Running /\ spc \in {"mem_min", "mem_max", "mem_sum"}
    /\ CASE spc = "mem_min" ->
              /\ minRam' = UMin(minRam, stats.MemUsed) /\ spc' = "mem_max"
              /\ UNCHANGED <<maxRam, sumRam>>
         [] spc = "mem_max" ->
              /\ maxRam' = UMax(maxRam, stats.MemUsed) /\ spc' = "mem_sum"
              /\ UNCHANGED <<minRam, sumRam>>
         [] OTHER ->
              /\ sumRam' = UAdd(sumRam, stats.MemUsed)
              /\ spc' = IF hasNvidiaSmi THEN "gpu" ELSE "log"
              /\ UNCHANGED <<minRam, maxRam>>
    /\ UNCHANGED <<inputVars, mainVars, sinkVars, cpuVars, totalTicks, minCpu,
                   maxCpu, sumCpu, minGpu, maxGpu, sumGpu, tickerVars, doneVars,
                   stats, sbuf, recVars, childVars, readerVars>>

\* lines 140-152: nvidia-smi is run and its report averaged
SamplerGpu ==
    /\ Running /\ spc = "gpu"
    /\ \E gpus \in (IF run.steady THEN SteadyGpuOutputs ELSE GpuOutputs) :
         LET v == GpuPercentOf(gpus) IN
         /\ stats' = [stats EXCEPT !.GpuPercent = v]
         /\ recGpu' = Append(recGpu, v)
    /\ spc' = "gpu_min"
    /\ UNCHANGED <<inputVars, mainVars, sinkVars, cpuVars, aggVars, tickerVars,
                   doneVars, sbuf, recCpu, recRam, childVars, readerVars>>

\* lines 153-155
StoreGpu ==
    /\ Running /\ spc \in {"gpu_min", "gpu_max", "gpu_sum"}
    /\ CASE spc = "gpu_min" ->
              /\ minGpu' = FMin(minGpu, stats.GpuPercent) /\ spc' = "gpu_max"
              /\ UNCHANGED <<maxGpu, sumGpu>>
         [] spc = "gpu_max" ->
              /\ maxGpu' = FMax(maxGpu, stats.GpuPercent) /\ spc' = "gpu_sum"
              /\ UNCHANGED <<minGpu, sumGpu>>
         [] OTHER ->
              /\ sumGpu' = FAdd(sumGpu, stats.GpuPercent) /\ spc' = "log"
              /\ UNCHANGED <<minGpu, maxGpu>>
    /\ UNCHANGED <<inputVars, mainVars, sinkVars, cpuVars, totalTicks, minCpu,
                   maxCpu, sumCpu, minRam, maxRam, sumRam, tickerVars, doneVars,
                   stats, sbuf, recVars, childVars, readerVars>>

\* line 157: logStats(&stats), up to the write to the log (line 80)
SamplerLog ==
    /\ Running /\ spc = "log"
    /\ logPrintf(logStats(stats, hasNvidiaSmi))
    /\ sbuf' = <<logStats(stats, hasNvidiaSmi)>>
    /\ spc' = "logerr"
    /\ UNCHANGED <<inputVars, mainVars, logOpen, mirror, cpuVars, aggVars,
                   tickerVars, doneVars, stats, recVars, childVars, readerVars>>

\* line 81 of that logPrintf, then back to the select
SamplerStderr ==
    /\ Running /\ spc = "logerr"
    /\ logPrintfStderr(sbuf)
    /\ sbuf' = <<>>
    /\ spc' = "select"
    /\ UNCHANGED <<inputVars, mainVars, logOpen, log, cpuVars, aggVars,
                   tickerVars, doneVars, stats, recVars, childVars, readerVars>>

\* ------------------------------------------------------- the child process

\* the child writes a line to one of its streams
ChildWrite(s, l) ==
    /\ Running /\ child = "running" /\ wopen[s]
    /\ written < run.lines /\ Len(pipe[s]) < PipeCap
    /\ pipe' = [pipe EXCEPT ![s] = Append(@, [n |-> written + 1, text |-> l])]
    /\ written' = written + 1
    /\ UNCHANGED <<inputVars, mainVars, sinkVars, cpuVars, aggVars, tickerVars,
                   doneVars, samplerVars, recVars, child, childCode, wopen,
                   readerVars>>

\* the state of a child inside a write to the full pipe of stream s
BlockedOn == [stdout |-> "write-stdout", stderr |-> "write-stderr"]

\* the child writes a line to a pipe that is full: the write blocks
ChildBlock(s) ==
    /\ Running /\ child = "running" /\ wopen[s]
    /\ written < run.lines /\ Len(pipe[s]) = PipeCap
    /\ child' = BlockedOn[s]
    /\ UNCHANGED <<inputVars, mainVars, sinkVars, cpuVars, aggVars, tickerVars,
                   doneVars, samplerVars, recVars, childCode, written, pipe,
                   wopen, readerVars>>

\* ... until the reader has made room in the pipe
ChildResume(s, l) ==
    /\ Running /\ child = BlockedOn[s]
    /\ Len(pipe[s]) < PipeCap
    /\ pipe' = [pipe EXCEPT ![s] = Append(@, [n |-> written + 1, text |-> l])]
    /\ written' = written + 1
    /\ child' = "running"
    /\ UNCHANGED <<inputVars, mainVars, sinkVars, cpuVars, aggVars, tickerVars,
                   doneVars, samplerVars, recVars, childCode, wopen, readerVars>>

\* the child closes one of its streams before it exits
ChildClose(s) ==
    /\ Running /\ child = "running" /\ wopen[s]
    /\ run.family
    /\ wopen' = [wopen EXCEPT ![s] = FALSE]
    /\ UNCHANGED <<inputVars, mainVars, sinkVars, cpuVars, aggVars, tickerVars,
                   doneVars, samplerVars, recVars, child, childCode, written,
                   pipe, readerVars>>

\* what a child may leave open when it exits: nothing, or the streams that
\* a process it has started inherited and still holds
Kept(r) == IF r.family THEN {{}, Streams} ELSE {{}}

\* the child exits with status c; its own copies of the write ends are
\* closed, those of a descendant stay open
ChildExit(c, keep) ==
    /\ Running /\ child = "running"
    /\ child' = "exited" /\ childCode' = c
    /\ wopen' = [s \in Streams |-> wopen[s] /\ s \in keep]
    /\ UNCHANGED <<inputVars, mainVars, sinkVars, cpuVars, aggVars, tickerVars,
                   doneVars, samplerVars, recVars, written, pipe, readerVars>>

\* a descendant of the child closes a stream it has inherited, or exits
HolderClose(s) ==
    /\ Running /\ child = "exited" /\ wopen[s]
    /\ wopen' = [wopen EXCEPT ![s] = FALSE]
    /\ UNCHANGED <<inputVars, mainVars, sinkVars, cpuVars, aggVars, tickerVars,
                   doneVars, samplerVars, recVars, child, childCode, written,
                   pipe, readerVars>>

\* ----------------------------------------------------------- handleOutput

\* a read of an empty pipe returns end of input once no process holds a
\* write end of the pipe
EndOfInput(p, w, ch) == p = <<>> /\ ~w

\* line 256: scanner.Scan() returns the next line, or false at end of input
\* or when the line does not fit the scanner's buffer
ReaderScan(s) ==
    /\ Running /\ rpc[s] = "scan"
    /\ IF pipe[s] # <<>>
       THEN /\ pipe' = [pipe EXCEPT ![s] = Tail(@)]
            /\ IF Head(pipe[s]).text = TooLong
               THEN /\ rpc' = [rpc EXCEPT ![s] = "scanerr"]
                    /\ UNCHANGED <<line, readLines>>
               ELSE /\ rpc' = [rpc EXCEPT ![s] = "mirror"]
                    /\ line' = [line EXCEPT ![s] = Head(pipe[s]).n]
                    /\ readLines' = [readLines EXCEPT ![s] = Append(@, Head(pipe[s]).n)]
       ELSE /\ EndOfInput(pipe[s], wopen[s], child)
            /\ rpc' = [rpc EXCEPT ![s] = "done"]
            /\ UNCHANGED <<pipe, line, readLines>>
    /\ UNCHANGED <<inputVars, mainVars, sinkVars, cpuVars, aggVars, tickerVars,
                   doneVars, samplerVars, recVars, child, childCode, written,
                   wopen>>

\* line 262: the line goes to the stream it came from
ReaderMirror(s) ==
    /\ Running /\ rpc[s] = "mirror"
    /\ mirror' = [mirror EXCEPT ![s] = WriteLine(@, Entry(s, "out", <<line[s]>>))]
    /\ rpc' = [rpc EXCEPT ![s] = "log"]
    /\ UNCHANGED <<inputVars, mainVars, logOpen, log, cpuVars, aggVars, tickerVars,
                   doneVars, samplerVars, recVars, childVars, line, readLines>>

\* line 265: and to the log
ReaderLog(s) ==
    /\ Running /\ rpc[s] = "log"
    /\ log' = LogWrite(logOpen, log, Entry(s, "out", <<line[s]>>))
    /\ rpc' = [rpc EXCEPT ![s] = "scan"]
    /\ UNCHANGED <<inputVars, mainVars, logOpen, mirror, cpuVars, aggVars, tickerVars,
                   doneVars, samplerVars, recVars, childVars, line, readLines>>

\* lines 267-269: a failed read is noted in the log; then wg.Done()
ReaderErr(s) ==
    /\ Running /\ rpc[s] = "scanerr"
    /\ log' = LogWrite(logOpen, log, Entry(s, "read-error", <<>>))
    /\ rpc' = [rpc EXCEPT ![s] = "done"]
    /\ UNCHANGED <<inputVars, mainVars, logOpen, mirror, cpuVars, aggVars, tickerVars,
                   doneVars, samplerVars, recVars, childVars, line, readLines>>

\* ------------------------------------------------------------ the program
MainStep ==
    \/ CheckPlatform \/ CheckArgs \/ GetPrev \/ OpenLog \/ Banner
    \/ StartSampler \/ BaselineLog \/ BaselineSleep \/ Pipes \/ CmdStart
    \/ StartedLog \/ SpawnReaders \/ WgWait \/ CmdWait \/ CloseDone
    \/ ReportSeparator \/ ReportCpu \/ ReportMem \/ ReportGpu \/ ReportTime
    \/ ReportFinished \/ CheckErr \/ ExitFailure \/ MainStderr
    \/ DeferTickerStop \/ DeferLogClose \/ Return \/ PanicPrint \/ PanicDie

SamplerStep ==
    \/ SamplerRecvTick \/ SamplerRecvDone \/ SamplerCpu \/ StoreCpu
    \/ SamplerMem \/ StoreMem \/ SamplerGpu \/ StoreGpu
    \/ SamplerLog \/ SamplerStderr

ReaderStep(s) == ReaderScan(s) \/ ReaderMirror(s) \/ ReaderLog(s) \/ ReaderErr(s)

Next ==
    \/ CheckPlatform \/ CheckArgs \/ GetPrev \/ OpenLog \/ Banner
    \/ StartSampler \/ BaselineLog \/ BaselineSleep \/ Pipes \/ CmdStart
    \/ StartedLog \/ SpawnReaders \/ WgWait \/ CmdWait \/ CloseDone
    \/ ReportSeparator \/ ReportCpu \/ ReportMem \/ ReportGpu \/ ReportTime
    \/ ReportFinished \/ CheckErr \/ ExitFailure \/ MainStderr
    \/ DeferTickerStop \/ DeferLogClose \/ Return \/ PanicPrint \/ PanicDie
    \/ TickerFire
    \/ SamplerRecvTick \/ SamplerRecvDone \/ SamplerCpu \/ StoreCpu
    \/ SamplerMem \/ StoreMem \/ SamplerGpu \/ StoreGpu
    \/ SamplerLog \/ SamplerStderr
    \/ \E s \in Streams, l \in run.texts : ChildWrite(s, l)
    \/ \E s \in Streams : ChildBlock(s)
    \/ \E s \in Streams, l \in run.texts : ChildResume(s, l)
    \/ \E s \in Streams : ChildClose(s)
    \/ \E c \in run.codes, keep \in Kept(run) : ChildExit(c, keep)
    \/ \E s \in Streams : HolderClose(s)
    \/ \E s \in Streams : ReaderScan(s)
    \/ \E s \in Streams : ReaderMirror(s)
    \/ \E s \in Streams : ReaderLog(s)
    \/ \E s \in Streams : ReaderErr(s)

Spec == Init /\ [][Next]_vars

\* --------------------------------------------------------------- fairness
\* The Go scheduler runs every goroutine that can take a step: main and the
\* two readers keep going while they are not blocked.  Nothing is assumed
\* of the child and its descendants, of the ticker or of the sampler.

\* the runs explored for termination: a command that cannot be started, a
\* silent child with a tick and nvidia-smi, and a child that writes enough
\* to fill a pipe
FairRuns ==
    { NoChild(1, TRUE), Silent(TRUE, TRUE, {0}), Writing(0, PipeCap + 1) }

InitFair == InitRuns(FairRuns)

FairSpec ==
    /\ InitFair /\ [][Next]_vars
    /\ WF_vars(MainStep)
    /\ \A s \in Streams : WF_vars(ReaderStep(s))

\* ------------------------------------------------------------ vocabulary
Exited       == mpc = "exited"
ChildStarted == child # "none"

HasKind(sq, k) == \E i \in DOMAIN sq : sq[i].kind = k
IsSample(e)    == e.kind = "sample"
Samples(sq)    == SelectSeq(sq, IsSample)
Last(sq)       == sq[Len(sq)]

\* the numbers of the lines of stream s in a sink, in the order written
RECURSIVE OutLines(_, _)
OutLines(sq, s) ==
    IF sq = <<>> THEN <<>>
    ELSE IF Head(sq).w = s /\ Head(sq).kind = "out"
         THEN <<Head(sq).args[1]>> \o OutLines(Tail(sq), s)
         ELSE OutLines(Tail(sq), s)

AggInitial ==
    /\ minCpu = F(100) /\ maxCpu = F(0) /\ sumCpu = F(0)
    /\ minRam = MaxUint /\ maxRam = 0 /\ sumRam = 0
    /\ minGpu = F(100) /\ maxGpu = F(0) /\ sumGpu = F(0)

\* positions of the sampler inside a tick, before its sample line is logged
TickPcs == {"cpu", "cpu_min", "cpu_max", "cpu_sum", "mem", "mem_min", "mem_max",
            "mem_sum", "gpu", "gpu_min", "gpu_max", "gpu_sum", "log"}

InTick == spc \in TickPcs

\* positions of main
BaselinePcs      == {"baseline", "sleep"}
UnwindPcs        == {"return_stop", "return_close", "return",
                     "panic_stop", "panic_close", "panic", "die"}
AfterWgPcs       == {"cmdwait", "close", "rep_sep", "rep_cpu", "rep_mem",
                     "rep_gpu", "rep_time", "rep_fin", "checkerr"} \cup UnwindPcs
AfterClosePcs    == {"rep_sep", "rep_cpu", "rep_mem", "rep_gpu", "rep_time",
                     "rep_fin", "checkerr", "exit1"} \cup UnwindPcs
AfterReadPcs     == {"rep_mem", "rep_gpu", "rep_time", "rep_fin", "checkerr"}
                        \cup UnwindPcs

\* ------------------------------------------------------------------ C1
\* C1: when the child was started and exited with code c, the tool exits
\* with code c: 0 for 0, and exactly c for a non-zero c.  Stated for the
\* runs that end at the exit-code check of lines 247-252, after the finish
\* banner.
C1_ExitCodeMirrorsChild ==
    (Exited /\ child = "exited" /\ HasKind(log, "finished")) =>
        exitCode = childCode

\* ------------------------------------------------------------------ C2
\* C2: whenever the child was started, the CPU and Memory summary lines and
\* the finish banner are in the log by the time the tool exits.
C2_SummaryBeforeExit ==
    (Exited /\ ChildStarted) =>
        HasKind(log, "cpu") /\ HasKind(log, "memory") /\ HasKind(log, "finished")

\* ------------------------------------------------------------------ C3
\* C3: once main has begun reading the aggregates for the report, the
\* sampler's tick handler takes no further step: no count increment, no
\* min/max/sum update, no sample line.
C3_Step ==
    mpc \in AfterReadPcs =>
        /\ totalTicks' = totalTicks
        /\ recCpu' = recCpu /\ recRam' = recRam /\ recGpu' = recGpu
        /\ Samples(log') = Samples(log)

C3_NoTickStepAfterReportRead == [][C3_Step]_vars

\* ------------------------------------------------------------------ C4
\* C4: when main has passed wg.Wait (so before cmd.Wait yields the exit
\* status and before any summary line), both readers have finished and every
\* line a reader has read is in its mirror and in the log.
C4_ReadersDrainedBeforeWait ==
    (mpc \in AfterWgPcs \/ (mpc \in {"exit1", "exited"} /\ ChildStarted)) =>
        \A s \in Streams :
            /\ rpc[s] = "done"
            /\ OutLines(mirror[s], s) = readLines[s]
            /\ OutLines(log, s) = readLines[s]

C4_Witness ==
    /\ mpc = "cmdwait"
    /\ \A s \in Streams : readLines[s] # <<>>

\* ------------------------------------------------------------------ C5
\* C5: done is closed at most once, never before both readers have finished
\* and cmd.Wait has returned, and exactly once by the time a run that started
\* the child exits.
C5_CancelOnceAfterDrainAndWait ==
    /\ closeCount <= 1
    /\ doneClosed <=> closeCount = 1
    /\ doneClosed =>
         /\ \A s \in Streams : rpc[s] = "done"
         /\ child = "exited"
         /\ waitErr = (childCode # 0)
         /\ mpc \in AfterClosePcs \cup {"exited"}
    /\ (Exited /\ ChildStarted) => closeCount = 1

C5_Witness ==
    Exited /\ closeCount = 1 /\ childCode = 7 /\ readLines["stdout"] # <<>>

\* ------------------------------------------------------------------ C6
\* C6: during the baseline window (from the start of the sampler until the
\* baseline sleep returns) the sampler emits no sample line and updates no
\* aggregate: the count stays 0 and min/max/sum keep their initial values.
C6_NoSampleInBaseline ==
    mpc \in BaselinePcs =>
        totalTicks = 0 /\ AggInitial /\ Samples(log) = <<>>

\* ------------------------------------------------------------------ C7
\* C7: a report produced with totalTicks = 0 does not fault and does not
\* print numbers computed from the initial sentinels.
SentinelCpuLine == M("cpu", CpuReport(<<F(100), F(0), F(0), F(100), F(0), 0>>))

C7_ZeroTickReportSafe ==
    /\ exitCode # PanicExit
    /\ (mpc = "rep_mem" /\ totalTicks = 0) => Last(log) # SentinelCpuLine

\* ------------------------------------------------------------------ C8
\* C8: after any non-empty sequence of completed ticks, for every metric
\* min <= each recorded value <= max, totalTicks is the number of updates,
\* and the reported average is sum / totalTicks.
C8_AggregatesBracketValues ==
    (~InTick /\ totalTicks > 0) =>
        /\ Len(recCpu) = totalTicks /\ Len(recRam) = totalTicks
        /\ \A i \in DOMAIN recCpu :
              FLeq(minCpu, recCpu[i].v) /\ FLeq(recCpu[i].v, maxCpu)
        /\ \A i \in DOMAIN recRam :
              minRam <= recRam[i].v /\ recRam[i].v <= maxRam
        /\ hasNvidiaSmi =>
              /\ Len(recGpu) = totalTicks
              /\ \A i \in DOMAIN recGpu :
                    FLeq(minGpu, recGpu[i]) /\ FLeq(recGpu[i], maxGpu)
        /\ (mpc = "rep_mem" /\ Last(log).kind = "cpu") =>
              Last(log).args[4] = FDiv(sumCpu, F(totalTicks))

\* ------------------------------------------------------------------ C9
\* positions of the sampler between receiving a tick and the end of its
\* logPrintf
EmitPcs == TickPcs \cup {"logerr"}

\* the sample lines written so far, in the log and on stderr
SampleSinks == {Samples(log), Samples(mirror["stderr"])}

\* C9: a tick whose counter read fails is counted once, records zero for
\* the failed metric in the sample and in the aggregates, emits its one
\* sample line (to stderr, and to the log as long as main has not closed
\* it), and the loop goes back to its select.
C9_State ==
    /\ totalTicks = Len(recCpu) + (IF spc = "cpu" THEN 1 ELSE 0)
    /\ Len(Samples(mirror["stderr"])) =
           totalTicks - (IF spc \in EmitPcs THEN 1 ELSE 0)
    /\ logOpen => Len(Samples(log)) = totalTicks - (IF InTick THEN 1 ELSE 0)
    /\ \A i \in DOMAIN recCpu :
          recCpu[i].err =>
             /\ recCpu[i].v = F(0)
             /\ \A sq \in SampleSinks : i <= Len(sq) => sq[i].args[1] = F(0)
             /\ (i = totalTicks /\ InTick) => stats.CpuPercent = F(0)
    /\ \A i \in DOMAIN recRam :
          recRam[i].err =>
             /\ recRam[i].v = 0
             /\ \A sq \in SampleSinks :
                   i <= Len(sq) =>
                      /\ sq[i].args[2] = F(0)
                      /\ sq[i].args[3] = 0
                      /\ sq[i].args[4] = 0
             /\ (i = totalTicks /\ InTick) =>
                   stats.MemUsed = 0 /\ stats.MemPercent = F(0)

C9_Step ==
    /\ (spc = "log" /\ spc' # spc) =>
          /\ spc' = "logerr"
          /\ logOpen => Samples(log') # Samples(log)
    /\ (spc = "logerr" /\ spc' # spc) =>
          /\ spc' = "select"
          /\ Samples(mirror'["stderr"]) # Samples(mirror["stderr"])
    /\ (spc' = "stopped" /\ spc # "stopped") => (spc = "select" /\ doneClosed)

C9_FailedReadTickCounts == []C9_State /\ [][C9_Step]_vars

C9_Witness ==
    /\ spc = "select" /\ totalTicks = 1 /\ Len(Samples(log)) = 1
    /\ recCpu[1].err /\ recRam[1].err

\* ------------------------------------------------------------------ C10
\* C10: without nvidia-smi no GPU value is ever written: sample lines carry
\* no GPU value, the GPU aggregates are never updated, and no GPU summary
\* line is written.
NoGpuField(sq) ==
    \A i \in DOMAIN sq :
        /\ sq[i].kind # "gpu"
        /\ sq[i].kind = "sample" => Len(sq[i].args) = 4

C10_NoGpuWithoutNvidiaSmi ==
    ~hasNvidiaSmi =>
        /\ NoGpuField(log) /\ NoGpuField(mirror["stderr"])
        /\ recGpu = <<>>
        /\ minGpu = F(100) /\ maxGpu = F(0) /\ sumGpu = F(0)
        /\ stats.GpuPercent = F(0)

C10_Witness ==
    /\ ~hasNvidiaSmi /\ Exited
    /\ Samples(log) # <<>> /\ HasKind(log, "finished")


\* C11: with nvidia-smi present, a tick on which it reports zero devices
\* divides nothing by zero and is treated as GPU-unavailable: neither the
\* sample nor the GPU min/max/sum aggregates ever hold an undefined value.
C11_ZeroDevicesNotAggregated ==
    hasNvidiaSmi =>
        /\ IsFin(stats.GpuPercent)
        /\ IsFin(minGpu) /\ IsFin(maxGpu) /\ IsFin(sumGpu)
        /\ \A i \in DOMAIN recGpu : IsFin(recGpu[i])

\* C12: a tick whose snapshot has the same total as the previous one stores
\* no undefined result of a division by zero into the sample or into the
\* CPU min/max/sum aggregates.
C12_ZeroDeltaDefined ==
    /\ IsFin(stats.CpuPercent)
    /\ IsFin(minCpu) /\ IsFin(maxCpu) /\ IsFin(sumCpu)
    /\ \A i \in DOMAIN recCpu : IsFin(recCpu[i].v)


IsPrefix(a, b) == Len(a) <= Len(b) /\ \A i \in DOMAIN a : a[i] = b[i]

\* C13: for each stream, the lines written to the mirror and the lines
\* written to the log are in the order in which they were read from that
\* stream, whatever the other reader and the sampler do in between.
C13_StreamOrderKept ==
    \A s \in Streams :
        /\ IsPrefix(OutLines(mirror[s], s), readLines[s])
        /\ IsPrefix(OutLines(log, s), readLines[s])
        /\ IsPrefix(OutLines(log, s), OutLines(mirror[s], s))

\* two lines of one stream in both sinks, a sample line between them in the log
C13_Witness ==
    \E s \in Streams : \E i, j, k \in DOMAIN log :
        /\ i < j /\ j < k
        /\ log[i].w = s /\ log[i].kind = "out"
        /\ log[j].kind = "sample"
        /\ log[k].w = s /\ log[k].kind = "out"
        /\ Len(OutLines(mirror[s], s)) = 2

Writers == {"main", "sampler"} \cup Streams

KindsOf(w) ==
    CASE w = "sampler" -> {"sample"}
      [] w \in Streams -> {"out", "read-error"}
      [] OTHER -> {"starting", "baseline", "pipe-failed", "start-failed",
                   "started", "newline", "separator", "dashes", "cpu",
                   "memory", "gpu", "elapsed", "finished", "failed"}

\* C14: every entry of the log is one complete line of one writer (main, the
\* sampler, or one of the two readers): no entry is a piece of a line.
C14_WholeLines ==
    \A i \in DOMAIN log :
        /\ log[i].part = "line"
        /\ log[i].w \in Writers
        /\ log[i].kind \in KindsOf(log[i].w)

\* lines of both readers next to each other, after a sample and before the
\* report of main
C14_Witness ==
    /\ HasKind(log, "sample") /\ HasKind(log, "finished")
    /\ \E i \in DOMAIN log :
         /\ i + 1 \in DOMAIN log
         /\ log[i].w = "stdout" /\ log[i + 1].w = "stderr"


HasReadError(s) == \E i \in DOMAIN log : log[i].w = s /\ log[i].kind = "read-error"

\* C15: a failed read of one stream is noted in the log, stops that reader
\* only and is not fatal: the tool does not exit on it, and the run can still
\* proceed to the report, so the child is never left inside a write to the
\* stream whose reader has stopped (a write that nothing will ever complete,
\* with the other reader and main waiting for the child).
C15_ReadFailureNotFatal ==
    \A s \in Streams :
        /\ (rpc[s] = "done" /\ wopen[s]) => HasReadError(s)
        /\ HasReadError(s) => ~(child = BlockedOn[s] /\ Len(pipe[s]) = PipeCap)


\* the inputs main refuses: another platform, no command, or a request for help
SetupError ==
    \/ goos # "linux"
    \/ args \in {<<>>, <<"-h">>, <<"--help">>}

\* C16: on an unsupported platform or a usage error main exits at once with a
\* non-zero code: the log is never opened, the sampler never started, the
\* child never spawned.
C16_SetupErrorsFailFast ==
    SetupError =>
        /\ mpc \in {"platform", "usage", "exited"}
        /\ Exited => exitCode # 0
        /\ logOpen = FALSE /\ log = <<>>
        /\ tickerOn = FALSE /\ spc = "none" /\ totalTicks = 0
        /\ child = "none"
        /\ \A s \in Streams : rpc[s] = "none"

C16_Witness ==
    /\ goos = "linux" /\ args = <<"--help">>
    /\ Exited /\ exitCode = 1
    /\ HasKind(mirror["stderr"], "usage")


\* C17: in the states the report is computed from, every counted tick has
\* applied all its updates: the count read by the report equals the number
\* of updates of the CPU, of the memory and (with nvidia-smi) of the GPU
\* aggregates; and the sampler never counts after it has seen the
\* cancellation.
C17_ReportSeesWholeTicks ==
    /\ mpc \in {"rep_cpu", "rep_mem", "rep_gpu"} =>
           /\ spc \notin TickPcs \ {"log"}
           /\ Len(recCpu) = totalTicks
           /\ Len(recRam) = totalTicks
           /\ hasNvidiaSmi => Len(recGpu) = totalTicks
    /\ spc = "stopped" => Len(recCpu) = totalTicks

\* C19: in the log no sample line follows a summary line or the finish banner.
C19_NoSampleAfterReport ==
    \A i, j \in DOMAIN log :
        (i < j /\ log[i].kind \in {"cpu", "memory", "gpu", "elapsed", "finished"})
            => log[j].kind # "sample"


\* the snapshot a successful read of the counters yields
Snapshot(os) == [idle |-> os[4], total |-> SumFields(os)]

\* a step of the sampler that calls getCPUUsage
C18_Step ==
    (spc = "cpu" /\ spc' = "cpu_min") =>
        IF Last(recCpu').err
        THEN prev' = prev
        ELSE /\ prev' = Snapshot(procStat')
             /\ Last(recCpu').v =
                    FMul(FDiv(FSub(F(USub(prev'.total, prev.total)),
                                   F(USub(prev'.idle, prev.idle))),
                              F(USub(prev'.total, prev.total))),
                         F(100))

\* C18: a successful call of getCPUUsage replaces the retained snapshot with
\* the one just read, and its usage is computed over exactly the counters
\* since the retained one; a call whose read fails leaves the retained
\* snapshot unchanged.
C18_PrevReplacedOnSuccess == [][C18_Step]_vars

\* two successful calls in a row, the second over the snapshot of the first
C18_Witness ==
    /\ Len(recCpu) = 2
    /\ ~recCpu[1].err /\ ~recCpu[2].err
    /\ prev = Snapshot(procStat)
    /\ prev.total > SumFields(ProcStatBoot) + 1


\* C20: once the started child has exited, the tool terminates: the readers
\* finish, the join and cmd.Wait return, done is closed, the report is
\* written and main exits, also after a reader has stopped on a read failure.
C20_TerminatesAfterChildExit == (child = "exited") ~> Exited

====
